---- MODULE Spec2Model ----
(***************************************************************************)
(* Panelisation search of gerbmerge: the exhaustive search                 *)
(* (tilesearch.ExhaustiveSearch), the random search with exhaustive tail   *)
(* (tilesearch.RandomSearch) and the wrappers tile_search_exhaustive and   *)
(* tile_search_random of gerbmerge.py.  The Tiling class (module tiling)   *)
(* is not part of the source tree at hand; its operations are modelled     *)
(* from the design document (sections 3 and 4.1).  A second specification *)
(* covers Aperture.getAdjusted (aptable.py) as merge calls it.             *)
(***************************************************************************)
EXTENDS Integers, Sequences, FiniteSets, TLC

VARIABLES
    jobs,            \* Jobs: the list of (Xdim, Ydim, job, rjob) handed to the search
    x, y,            \* panel width and height (TileSearch.x, TileSearch.y)
    xspacing, yspacing,
    searchTimeout,   \* 0 = no timeout
    AutoSearchType,  \* "exhaustive" or "random" (config.AutoSearchType)
    RandomSearchExhaustiveJobs,
    outcomes,        \* what the random choices of one trial can lead to (fixed by the inputs)
    optimum,         \* random mode: what a completed ExhaustiveSearch of all jobs finds
    search,          \* the ExhaustiveSearch object of tile_search_exhaustive
    p,               \* the worker processes of tile_search_random, each a RandomSearch
    q,               \* the multiprocessing.Queue of (count, tiling) messages
    timeUp,          \* random search: time.time() - startTime > searchTimeout
    co,              \* locals of tile_search_random: bestScore, bestTiling, placementsTried
    pc,              \* position of the wrapper: "start", "running"/"sleep"/"drain", "returned"
    result,          \* the tiling the wrapper returned
    interrupted,     \* a KeyboardInterrupt was delivered
    timedOut,        \* the search has observed that searchTimeout elapsed
    tileJobs,        \* tile_jobs: "searching", "raised" (RuntimeError) or "returned"
    sent,            \* history: per worker, its placements and bestTiling at its latest
                     \* q.put, and the sum of the counts it has put
    aperture,        \* merge: the aperture config.GAT[ap] of the layer that is looked at
    minimum,         \* merge: config.MinimumFeatureDimension[layername]
    new,             \* merge: what getAdjusted returned
    apc              \* merge: position in the loop body over the apertures

random == <<p, q, co, timeUp, sent>>
apertures == <<aperture, minimum, new, apc>>
inputs == <<jobs, x, y, xspacing, yspacing, searchTimeout, AutoSearchType,
            RandomSearchExhaustiveJobs, outcomes, optimum>>
vars == <<jobs, x, y, xspacing, yspacing, searchTimeout, AutoSearchType,
          RandomSearchExhaustiveJobs, outcomes, optimum, search, p, q, co, timeUp, pc, result, interrupted, timedOut,
          tileJobs, sent, aperture, minimum, new, apc>>

-----------------------------------------------------------------------------
(* Values *)

\* float("inf"): larger than the area of every panel of the model
Infinity == 1000

\* Python's None
None == [none |-> TRUE]

Min2(a, b) == IF a <= b THEN a ELSE b
Max2(a, b) == IF a >= b THEN a ELSE b

SetMax(S) == CHOOSE m \in S : \A n \in S : n <= m
SetMin(S) == CHOOSE m \in S : \A n \in S : m <= n

RECURSIVE factorial(_)
factorial(n) == IF n <= 1 THEN 1 ELSE n * factorial(n - 1)

\* lexicographic order on points, used to list a set of points
PtLess(a, b) == a[1] < b[1] \/ (a[1] = b[1] /\ a[2] < b[2])

RECURSIVE PtSeq(_)
PtSeq(S) ==
    IF S = {} THEN <<>>
    ELSE LET m == CHOOSE a \in S : \A b \in S \ {a} : PtLess(a, b)
         IN  <<m>> \o PtSeq(S \ {m})

\* a slice that loses the job after position i as well
RemoveAtAndNext(L, i) == SubSeq(L, 1, i - 1) \o SubSeq(L, i + 2, Len(L))

\* the list L without its element at position i: Jobs[:i] + Jobs[i+1:]
RemoveAt(L, i) == SubSeq(L, 1, i - 1) \o SubSeq(L, i + 1, Len(L))

-----------------------------------------------------------------------------
(* Tiling (design document 4.1).  A tiling records the placed rectangles   *)
(* in insertion order, each with its anchor, its (spacing-inflated) size   *)
(* and the job variant, and the anchor candidates discarded by            *)
(* removeInlets.                                                           *)

EmptyTiling == [rects |-> <<>>, closed |-> {}]

clone(T) == [rects |-> T.rects, closed |-> T.closed]

RectsOf(T) == {T.rects[i] : i \in 1..Len(T.rects)}

\* the interiors of the two rectangles intersect
Overlap(px, py, w, h, r) ==
    /\ px < r.x + r.w /\ r.x < px + w
    /\ py < r.y + r.h /\ r.y < py + h

\* anchor candidates: the lower-left corner of the panel and the corners
\* of the placed rectangles on their upper and right sides
Candidates(T) ==
    {<<0, 0>>} \cup UNION {{<<r.x, r.y + r.h>>, <<r.x + r.w, r.y>>,
                           <<r.x + r.w, r.y + r.h>>} : r \in RectsOf(T)}

Fits(T, pt, w, h) ==
    /\ pt[1] + w <= x
    /\ pt[2] + h <= y
    /\ \A r \in RectsOf(T) : ~Overlap(pt[1], pt[2], w, h, r)

validAddPoints(T, w, h) ==
    PtSeq({pt \in Candidates(T) \ T.closed : Fits(T, pt, w, h)})

addJob(T, pt, w, h, job, rot) ==
    [T EXCEPT !.rects = Append(@, [x |-> pt[1], y |-> pt[2], w |-> w, h |-> h,
                                   job |-> job, rot |-> rot])]

\* the unit cell with lower-left corner (i, j) is covered by a placed rectangle
Occ(T, i, j) ==
    \E r \in RectsOf(T) : r.x <= i /\ i < r.x + r.w /\ r.y <= j /\ j < r.y + r.h

\* length of the free run of cells from an anchor to the right / upwards
FreeRight(T, pt) ==
    IF pt[2] >= y \/ pt[1] >= x THEN 0
    ELSE SetMax({k \in 0..(x - pt[1]) : \A i \in 0..(k - 1) : ~Occ(T, pt[1] + i, pt[2])})

FreeUp(T, pt) ==
    IF pt[2] >= y \/ pt[1] >= x THEN 0
    ELSE SetMax({k \in 0..(y - pt[2]) : \A j \in 0..(k - 1) : ~Occ(T, pt[1], pt[2] + j)})

\* discard the gaps that are smaller than minDimension in either axis
removeInlets(T, minDim) ==
    [T EXCEPT !.closed = @ \cup {pt \in Candidates(T) :
                                    FreeRight(T, pt) < minDim \/ FreeUp(T, pt) < minDim}]

\* bounding-box area of the placed rectangles, 0 if there is none
area(T) ==
    IF T.rects = <<>> THEN 0
    ELSE LET R == RectsOf(T)
         IN  (SetMax({r.x + r.w : r \in R}) - SetMin({r.x : r \in R}))
             * (SetMax({r.y + r.h : r \in R}) - SetMin({r.y : r \in R}))

\* a grid point is a corner of the occupied region when one or three of the
\* four cells around it are occupied, or two that touch only at the point
IsCorner(T, i, j) ==
    LET a == Occ(T, i - 1, j - 1)
        b == Occ(T, i, j - 1)
        c == Occ(T, i - 1, j)
        d == Occ(T, i, j)
        n == (IF a THEN 1 ELSE 0) + (IF b THEN 1 ELSE 0)
             + (IF c THEN 1 ELSE 0) + (IF d THEN 1 ELSE 0)
    IN  n = 1 \/ n = 3 \/ (n = 2 /\ a = d)

corners(T) ==
    Cardinality({pt \in (0..x) \X (0..y) : IsCorner(T, pt[1], pt[2])})

\* tiling.minDimension: the smallest side of any job of the list
minDimension(Jobs) ==
    SetMin({Min2(Jobs[i].Xdim, Jobs[i].Ydim) : i \in 1..Len(Jobs)})

-----------------------------------------------------------------------------
(* ExhaustiveSearch (tilesearch.py).  The recursion of _run is kept as an  *)
(* explicit stack of frames; every frame remembers where it is in the      *)
(* loop over the jobs.                                                      *)

\* a constructor that always starts from a blank tiling
NewExhaustiveSearchBlank(Jobs, timeout, baseTiling) ==
    [jobs |-> Jobs,
     searchTimeout |-> timeout,
     bestTiling |-> None,
     bestScore |-> Infinity,
     permutations |-> 0,
     possiblePermutations |-> (2 ^ Len(Jobs)) * factorial(Len(Jobs)),
     baseTiling |-> EmptyTiling,
     printStats |-> FALSE,
     syncDue |-> TRUE,
     timeUp |-> FALSE,
     stack |-> <<>>]

\* TileSearch.__init__ and ExhaustiveSearch.__init__
NewExhaustiveSearch(Jobs, timeout, baseTiling) ==
    [jobs |-> Jobs,
     searchTimeout |-> timeout,
     bestTiling |-> None,
     bestScore |-> Infinity,
     permutations |-> 0,
     possiblePermutations |-> (2 ^ Len(Jobs)) * factorial(Len(Jobs)),
     baseTiling |-> IF baseTiling # None THEN baseTiling ELSE EmptyTiling,
     printStats |-> FALSE,
     syncDue |-> TRUE,     \* time.time() > lastCheckTime + syncPeriod (lastCheckTime starts at 0)
     timeUp |-> FALSE,     \* time.time() - startTime > searchTimeout
     stack |-> <<>>]

\* a call _run(Jobs, tiles, firstAddPoint, printStats) that has not started
Frame(Jobs, tiles, firstAddPoint) ==
    [Jobs |-> Jobs, tiles |-> tiles, firstAddPoint |-> firstAddPoint,
     at |-> "enter", job_ix |-> 0, addpoints1 |-> <<>>, addpoints2 |-> <<>>, k |-> 0]

Top(s) == s.stack[Len(s.stack)]
Pop(s) == [s EXCEPT !.stack = SubSeq(@, 1, Len(@) - 1)]
SetTop(s, f) == [s EXCEPT !.stack[Len(s.stack)] = f]
Push(s, f) == [s EXCEPT !.stack = Append(@, f)]

\* ExhaustiveSearch.run
run(s, printStats) ==
    Push([s EXCEPT !.printStats = printStats], Frame(s.jobs, s.baseTiling, TRUE))

\* a comparison that forgets the corners
IsBetterLeafAreaOnly(score, tiles, s) == score < s.bestScore

\* the comparison of a leaf with the best so far
IsBetterLeaf(score, tiles, s) ==
    \/ score < s.bestScore
    \/ (score = s.bestScore /\ corners(tiles) < corners(s.bestTiling))

\* a leaf that counts a permutation for every add-point
LeafCountsEveryAnchor(s) ==
    LET f == Top(s)
        score == area(f.tiles)
        s1 == IF IsBetterLeaf(score, f.tiles, s)
              THEN [s EXCEPT !.bestTiling = f.tiles, !.bestScore = score]
              ELSE s
    IN  Pop([s1 EXCEPT !.permutations = @ + 1])

\* the leaf of the recursion: no job is left
Leaf(s) ==
    LET f == Top(s)
        score == area(f.tiles)
        s1 == IF IsBetterLeaf(score, f.tiles, s)
              THEN [s EXCEPT !.bestTiling = f.tiles, !.bestScore = score]
              ELSE s
        s2 == IF f.firstAddPoint
              THEN [s1 EXCEPT !.permutations = @ + 1]
              ELSE s1
    IN  Pop(s2)

\* add-points of the unrotated job
AddPoints1(tiles, J) ==
    validAddPoints(tiles, J.Xdim + xspacing, J.Ydim + yspacing)

\* add-points of the rotated job computed for the unrotated dimensions
AddPoints2Unswapped(tiles, J) ==
    IF J.Xdim # J.Ydim
    THEN validAddPoints(tiles, J.Xdim + xspacing, J.Ydim + yspacing)
    ELSE <<>>

\* a test for squares made on the spacing-inflated dimensions
AddPoints2InflatedSquare(tiles, J) ==
    IF J.Xdim + xspacing # J.Ydim + yspacing
    THEN validAddPoints(tiles, J.Ydim + xspacing, J.Xdim + yspacing)
    ELSE <<>>

\* add-points of the rotated job; none for a square
AddPoints2(tiles, J) ==
    IF J.Xdim # J.Ydim
    THEN validAddPoints(tiles, J.Ydim + xspacing, J.Xdim + yspacing)
    ELSE <<>>

\* a loop body that never tries the rotated job
LoopHeadUnrotatedOnly(f, ix) ==
    [f EXCEPT !.job_ix = ix,
              !.addpoints1 = AddPoints1(f.tiles, f.Jobs[ix]),
              !.addpoints2 = <<>>,
              !.at = "unrot",
              !.k = 1]

\* the head of the loop body for job_ix = ix (1-based)
LoopHead(f, ix) ==
    [f EXCEPT !.job_ix = ix,
              !.addpoints1 = AddPoints1(f.tiles, f.Jobs[ix]),
              !.addpoints2 = AddPoints2(f.tiles, f.Jobs[ix]),
              !.at = "unrot",
              !.k = 1]

\* a call that takes a tiling for complete while a job is left
IsLeafEarly(Jobs) == Len(Jobs) <= 1

\* "if not Jobs": no job is left to place
IsLeaf(Jobs) == Jobs = <<>>

\* entry of _run: a leaf, or removeInlets and the first job of the loop
Enter(s) ==
    LET f == Top(s) IN
    IF IsLeaf(f.Jobs) THEN Leaf(s)
    ELSE LET t == removeInlets(f.tiles, minDimension(f.Jobs))
             s1 == SetTop(s, LoopHead([f EXCEPT !.tiles = t], 1))
         IN  \* the outermost frame works on self.baseTiling itself
             IF Len(s.stack) = 1 THEN [s1 EXCEPT !.baseTiling = t] ELSE s1

\* a correction that counts the job being tried among the remaining ones
PruneCountWithJob(remaining_jobs) == 2 ^ (Len(remaining_jobs) + 1)

\* the correction of the counter for a variant that cannot be placed
PruneCount(remaining_jobs) == 2 ^ Len(remaining_jobs)

Prune(s, f) ==
    IF f.firstAddPoint
    THEN [s EXCEPT !.permutations = @ + PruneCount(RemoveAt(f.Jobs, f.job_ix))]
    ELSE s

\* the tiling of the recursive call for the unrotated job at add-point pt
PlaceUnrotated(tiles, J, pt) ==
    addJob(clone(tiles), pt, J.Xdim + xspacing, J.Ydim + yspacing, J.job, FALSE)

\* a rotated placement that forgets to swap the dimensions
PlaceRotatedUnswapped(tiles, J, pt) ==
    addJob(clone(tiles), pt, J.Xdim + xspacing, J.Ydim + yspacing, J.job, TRUE)

\* the tiling of the recursive call for the rotated job at add-point pt
PlaceRotated(tiles, J, pt) ==
    addJob(clone(tiles), pt, J.Ydim + xspacing, J.Xdim + yspacing, J.job, TRUE)

\* a turn of the loop that places the job on the tiling of the call itself
\* and hands that same tiling to the recursive call
UnrotShared(s) ==
    LET f == Top(s)
        J == f.Jobs[f.job_ix]
        remaining_jobs == RemoveAt(f.Jobs, f.job_ix)
    IN  IF f.addpoints1 = <<>>
        THEN SetTop(Prune(s, f), [f EXCEPT !.at = "rot", !.k = 1])
        ELSE IF f.k <= Len(f.addpoints1)
        THEN LET shared == addJob(f.tiles, f.addpoints1[f.k], J.Xdim + xspacing,
                                  J.Ydim + yspacing, J.job, FALSE)
             IN  Push(SetTop(s, [f EXCEPT !.k = @ + 1, !.tiles = shared]),
                      Frame(remaining_jobs, shared,
                            f.firstAddPoint /\ f.addpoints1[f.k] = f.addpoints1[1]))
        ELSE SetTop(s, [f EXCEPT !.at = "rot", !.k = 1])

\* one turn of "for ix in addpoints1", or the prune when there is no add-point
Unrot(s) ==
    LET f == Top(s)
        J == f.Jobs[f.job_ix]
        remaining_jobs == RemoveAt(f.Jobs, f.job_ix)
    IN  IF f.addpoints1 = <<>>
        THEN SetTop(Prune(s, f), [f EXCEPT !.at = "rot", !.k = 1])
        ELSE IF f.k <= Len(f.addpoints1)
        THEN Push(SetTop(s, [f EXCEPT !.k = @ + 1]),
                  Frame(remaining_jobs,
                        PlaceUnrotated(f.tiles, J, f.addpoints1[f.k]),
                        f.firstAddPoint /\ f.addpoints1[f.k] = f.addpoints1[1]))
        ELSE SetTop(s, [f EXCEPT !.at = "rot", !.k = 1])

\* one turn of "for ix in addpoints2", or the prune when there is no add-point
Rot(s) ==
    LET f == Top(s)
        J == f.Jobs[f.job_ix]
        remaining_jobs == RemoveAt(f.Jobs, f.job_ix)
    IN  IF f.addpoints2 = <<>>
        THEN SetTop(Prune(s, f), [f EXCEPT !.at = "check", !.k = 1])
        ELSE IF f.k <= Len(f.addpoints2)
        THEN Push(SetTop(s, [f EXCEPT !.k = @ + 1]),
                  Frame(remaining_jobs,
                        PlaceRotated(f.tiles, J, f.addpoints2[f.k]),
                        f.firstAddPoint /\ f.addpoints2[f.k] = f.addpoints2[1]))
        ELSE SetTop(s, [f EXCEPT !.at = "check", !.k = 1])

\* the check at the end of the loop body finds the timeout elapsed
SeesTimeout(s) ==
    s.printStats /\ s.syncDue /\ s.searchTimeout > 0 /\ s.timeUp

\* the next job of the loop, or the end of the loop
NextJob(s) ==
    LET f == Top(s) IN
    IF f.job_ix < Len(f.Jobs) THEN SetTop(s, LoopHead(f, f.job_ix + 1)) ELSE Pop(s)

\* what the timeout check does to the running search: return from _run
TimeoutReturn(s) == Pop(s)

\* the status print and timeout check at the end of the loop body
Check(s) ==
    IF s.printStats /\ s.syncDue
    THEN LET s1 == [s EXCEPT !.syncDue = FALSE]
         IN  IF SeesTimeout(s) THEN TimeoutReturn(s1) ELSE NextJob(s1)
    ELSE NextJob(s)

\* one step of the search
Step(s) ==
    LET at == Top(s).at IN
    IF at = "enter" THEN Enter(s)
    ELSE IF at = "unrot" THEN Unrot(s)
    ELSE IF at = "rot" THEN Rot(s)
    ELSE Check(s)

\* the search run to its end (no time passes: used where printStats is off)
RECURSIVE RunToEnd(_)
RunToEnd(s0) ==
    LET Go(s) == IF s.stack = <<>> THEN s ELSE RunToEnd(Step(s))
    IN  CHOOSE r \in {Go(s) : s \in {s0}} : TRUE

-----------------------------------------------------------------------------
(* Inputs *)

\* a job of the list L of tile_jobs: dimensions and the job handle
Job(w, h, id) == [Xdim |-> w, Ydim |-> h, job |-> id]

\* job lists as tile_jobs builds them: largest dimension first, a repeated
\* job appears once per repetition
JobLists ==
    {<<Job(2, 1, 1)>>,
     <<Job(3, 1, 1)>>,
     <<Job(1, 2, 1)>>,
     <<Job(2, 1, 1), Job(1, 1, 2)>>,
     <<Job(2, 2, 1), Job(2, 2, 1)>>,
     <<Job(2, 1, 1), Job(2, 1, 1), Job(1, 1, 2)>>,
     <<Job(3, 1, 1), Job(2, 1, 2), Job(1, 2, 3)>>}

Panels == {<<2, 2>>, <<3, 2>>, <<2, 3>>, <<3, 3>>}

Spacings == {<<0, 0>>, <<1, 0>>}

Timeouts == {0, 1}

\* the panelisations tried with the exhaustive search
ExhaustiveInputs ==
    {[jobs |-> L, x |-> panel[1], y |-> panel[2], xspacing |-> sp[1], yspacing |-> sp[2],
      tail |-> 2, timeout |-> t] : L \in JobLists, panel \in Panels, sp \in Spacings,
                                   t \in Timeouts}

\* the panelisations tried with the random search; tail is --rs-esjobs
RandomInputs ==
    {[jobs |-> <<Job(2, 1, 1), Job(1, 1, 2)>>, x |-> 3, y |-> 2,
      xspacing |-> 0, yspacing |-> 0, tail |-> 1, timeout |-> 0],
     [jobs |-> <<Job(2, 1, 1), Job(1, 1, 2)>>, x |-> 3, y |-> 2,
      xspacing |-> 0, yspacing |-> 0, tail |-> 2, timeout |-> 1],
     [jobs |-> <<Job(2, 1, 1), Job(1, 1, 2)>>, x |-> 3, y |-> 3,
      xspacing |-> 1, yspacing |-> 0, tail |-> 1, timeout |-> 1],
     [jobs |-> <<Job(2, 2, 1), Job(2, 2, 1)>>, x |-> 2, y |-> 2,
      xspacing |-> 0, yspacing |-> 0, tail |-> 1, timeout |-> 1],
     [jobs |-> <<Job(2, 2, 1), Job(2, 2, 1)>>, x |-> 2, y |-> 2,
      xspacing |-> 0, yspacing |-> 0, tail |-> 2, timeout |-> 0],
     [jobs |-> <<Job(3, 1, 1), Job(1, 1, 2)>>, x |-> 3, y |-> 2,
      xspacing |-> 0, yspacing |-> 0, tail |-> 1, timeout |-> 1],
     [jobs |-> <<Job(2, 1, 1)>>, x |-> 2, y |-> 2,
      xspacing |-> 0, yspacing |-> 0, tail |-> 0, timeout |-> 1],
     [jobs |-> <<Job(2, 2, 1), Job(1, 1, 2)>>, x |-> 3, y |-> 2,
      xspacing |-> 0, yspacing |-> 0, tail |-> 0, timeout |-> 0]}

InputsOf(type) == IF type = "random" THEN RandomInputs ELSE ExhaustiveInputs

-----------------------------------------------------------------------------
(* tile_search_exhaustive (gerbmerge.py) *)

\* search.run() is called inside the try block
ExRun ==
    /\ AutoSearchType = "exhaustive"
    /\ pc = "start"
    /\ search' = run(search, TRUE)
    /\ pc' = "running"
    /\ UNCHANGED <<inputs, apertures, tileJobs, random, result, interrupted, timedOut>>

\* a step of the recursive search
ExStep ==
    /\ AutoSearchType = "exhaustive"
    /\ pc = "running"
    /\ search.stack # <<>>
    /\ search' = Step(search)
    /\ timedOut' = (timedOut \/ (Top(search).at = "check" /\ SeesTimeout(search)))
    /\ UNCHANGED <<inputs, apertures, tileJobs, random, pc, result, interrupted>>

\* search.run() has returned: return search.bestTiling
ExReturn ==
    /\ AutoSearchType = "exhaustive"
    /\ pc = "running"
    /\ search.stack = <<>>
    /\ result' = search.bestTiling
    /\ pc' = "returned"
    /\ UNCHANGED <<inputs, apertures, tileJobs, random, search, interrupted, timedOut>>

\* KeyboardInterrupt inside the try block: the search is abandoned where it
\* is and search.bestTiling is returned
ExInterrupt ==
    /\ AutoSearchType = "exhaustive"
    /\ pc = "running"
    /\ interrupted' = TRUE
    /\ result' = search.bestTiling
    /\ pc' = "returned"
    /\ UNCHANGED <<inputs, apertures, tileJobs, random, search, timedOut>>

\* a synchronisation period has passed since the last check
ExSyncPeriodElapses ==
    /\ AutoSearchType = "exhaustive"
    /\ pc = "running"
    /\ ~search.syncDue
    /\ search' = [search EXCEPT !.syncDue = TRUE]
    /\ UNCHANGED <<inputs, apertures, tileJobs, random, pc, result, interrupted, timedOut>>

\* searchTimeout seconds have passed since the search was constructed
ExTimeoutElapses ==
    /\ AutoSearchType = "exhaustive"
    /\ pc = "running"
    /\ searchTimeout > 0
    /\ ~search.timeUp
    /\ search' = [search EXCEPT !.timeUp = TRUE]
    /\ UNCHANGED <<inputs, apertures, tileJobs, random, pc, result, interrupted, timedOut>>

-----------------------------------------------------------------------------
(* RandomSearch (tilesearch.py) *)

\* the worker processes (one per CPU)
Workers == {1, 2}

\* bound on the trials of all workers together
MaxTrials == 2

\* TileSearch.__init__, RandomSearch.__init__ and the locals of run
NewRandomSearch ==
    [bestTiling |-> None,
     bestScore |-> Infinity,
     placements |-> 0,
     baseTiling |-> EmptyTiling,
     foundBetter |-> FALSE,
     placementsSinceLastCheck |-> 0,
     currentTiling |-> None, \* the tiling of the latest trial after its random placements,
                             \* None if the trial was left by "break"
     finalSearch |-> None,   \* the tail search of the latest trial, None if it ran none
     syncDue |-> TRUE,       \* time.time() > lastCheckTime + syncPeriod (lastCheckTime starts at 0)
     at |-> "new"]           \* "new", "running", "returned", "terminated"

\* M: the number of jobs that are placed randomly
RandomCount(N) == Max2(N - RandomSearchExhaustiveJobs, 0)

\* r.sample(range(N), N): every order of the job indices
RECURSIVE Orders(_)
Orders(S) ==
    IF S = {} THEN {<<>>}
    ELSE UNION {{<<i>> \o o : o \in Orders(S \ {i})} : i \in S}

\* the random placement of the jobs joborder[:M]: every tiling the random
\* choices can produce, None standing for a trial left by "break"
RECURSIVE RandomPlacements(_, _, _)
RandomPlacements(currentTiling, order, minInletSize) ==
    IF order = <<>> THEN {currentTiling}
    ELSE UNION {UNION {
            LET J == jobs[Head(order)]
                w == IF rot THEN J.Ydim + xspacing ELSE J.Xdim + xspacing
                h == IF rot THEN J.Xdim + yspacing ELSE J.Ydim + yspacing
            IN  UNION {IF addpoints = <<>> THEN {None}
                       ELSE UNION {UNION {RandomPlacements(next, Tail(order), minInletSize)
                                             : next \in {addJob(T, addpoints[i], w, h, J.job, rot)}}
                                      : i \in 1..Len(addpoints)}
                          : addpoints \in {validAddPoints(T, w, h)}}
            : rot \in BOOLEAN}
            : T \in {removeInlets(currentTiling, minInletSize)}}

\* a tail search that starts from a blank tiling
TailSearchBlank(currentTiling, order) ==
    LET remainingJobs == [i \in 1..Len(order) |-> jobs[order[i]]]
        done == RunToEnd(run(NewExhaustiveSearch(remainingJobs, 0, None), FALSE))
    IN  [bestScore |-> done.bestScore, bestTiling |-> done.bestTiling]

\* the exhaustive search on the jobs joborder[M:], started from currentTiling
TailSearch(currentTiling, order) ==
    LET remainingJobs == [i \in 1..Len(order) |-> jobs[order[i]]]
        done == RunToEnd(run(NewExhaustiveSearch(remainingJobs, 0, currentTiling), FALSE))
    IN  [bestScore |-> done.bestScore, bestTiling |-> done.bestTiling]

\* a completed ExhaustiveSearch over the full job list
ExhaustiveOptimum ==
    LET done == RunToEnd(run(NewExhaustiveSearch(jobs, 0, None), FALSE))
    IN  [bestScore |-> done.bestScore, bestTiling |-> done.bestTiling]

\* the outcomes of one trial: the tiling after the random placements (None
\* when the trial was left by "break") and the result of the tail search (None
\* when the trial ran none)
TrialOutcomes(w) ==
    LET N == Len(jobs)
        M == RandomCount(N)
    IN  UNION {{[currentTiling |-> T,
                 finalSearch |-> IF T = None \/ N - M = 0
                                 THEN None
                                 ELSE TailSearch(T, SubSeq(joborder, M + 1, N))]
                : T \in RandomPlacements(clone(w.baseTiling), SubSeq(joborder, 1, M),
                                         minDimension(jobs))}
               : joborder \in Orders(1..N)}

\* a comparison that also takes a result of equal score
IsBetterTrialOrEqual(finalSearch, w) == finalSearch.bestScore <= w.bestScore

\* the comparison of the tail search with the running best
IsBetterTrial(finalSearch, w) == finalSearch.bestScore < w.bestScore

\* a trial that takes the better tiling and keeps the old score
TrialKeepsScore(w, outcome) ==
    LET finalSearch == outcome.finalSearch
        w1 == IF finalSearch # None /\ IsBetterTrial(finalSearch, w)
              THEN [w EXCEPT !.bestTiling = finalSearch.bestTiling,
                             !.foundBetter = TRUE]
              ELSE w
    IN  [w1 EXCEPT !.currentTiling = outcome.currentTiling,
                   !.finalSearch = finalSearch,
                   !.placements = @ + 1,
                   !.placementsSinceLastCheck = @ + 1]

\* the trial: lines 102-142
Trial(w, outcome) ==
    LET finalSearch == outcome.finalSearch
        w1 == IF finalSearch # None /\ IsBetterTrial(finalSearch, w)
              THEN [w EXCEPT !.bestScore = finalSearch.bestScore,
                             !.bestTiling = finalSearch.bestTiling,
                             !.foundBetter = TRUE]
              ELSE w
    IN  [w1 EXCEPT !.currentTiling = outcome.currentTiling,
                   !.finalSearch = finalSearch,
                   !.placements = @ + 1,
                   !.placementsSinceLastCheck = @ + 1]

\* the message of a synchronisation
Message(w) ==
    IF w.foundBetter THEN <<w.placementsSinceLastCheck, w.bestTiling>>
    ELSE <<w.placementsSinceLastCheck, None>>

\* a synchronisation that forgets to reset the flag and the counter
SyncedWithoutReset(w) ==
    [w EXCEPT !.syncDue = FALSE,
              !.at = IF searchTimeout > 0 /\ timeUp THEN "returned" ELSE "running"]

\* the worker after a synchronisation: lines 147-162
Synced(w) ==
    [w EXCEPT !.syncDue = FALSE,
              !.foundBetter = FALSE,
              !.placementsSinceLastCheck = 0,
              !.at = IF searchTimeout > 0 /\ timeUp THEN "returned" ELSE "running"]

RECURSIVE SumPlacements(_)
SumPlacements(S) ==
    IF S = {} THEN 0
    ELSE LET i == CHOOSE j \in S : TRUE IN p[i].placements + SumPlacements(S \ {i})

\* a turn of the loop that checks the timeout after every trial, also when
\* no synchronisation is due
RsIterationTimeoutEveryTrial(i) ==
    /\ AutoSearchType = "random"
    /\ p[i].at = "running"
    /\ SumPlacements(Workers) < MaxTrials
    /\ \E outcome \in outcomes :
          LET w == Trial(p[i], outcome) IN
          IF w.syncDue
          THEN /\ q' = Append(q, Message(w))
               /\ p' = [p EXCEPT ![i] = Synced(w)]
               /\ sent' = [sent EXCEPT ![i] = [placements |-> w.placements,
                                               bestTiling |-> w.bestTiling,
                                               counts |-> @.counts + Message(w)[1]]]
          ELSE /\ q' = q
               /\ p' = [p EXCEPT ![i] = [w EXCEPT !.at = IF searchTimeout > 0 /\ timeUp
                                                         THEN "returned" ELSE "running"]]
               /\ sent' = sent
    /\ UNCHANGED <<inputs, apertures, tileJobs, search, co, timeUp, pc, result, interrupted, timedOut>>

\* one turn of the loop of RandomSearch.run: a trial, then the synchronisation
\* if it is due
RsIteration(i) ==
    /\ AutoSearchType = "random"
    /\ p[i].at = "running"
    /\ SumPlacements(Workers) < MaxTrials
    /\ \E outcome \in outcomes :
          LET w == Trial(p[i], outcome) IN
          IF w.syncDue
          THEN /\ q' = Append(q, Message(w))
               /\ p' = [p EXCEPT ![i] = Synced(w)]
               /\ sent' = [sent EXCEPT ![i] = [placements |-> w.placements,
                                               bestTiling |-> w.bestTiling,
                                               counts |-> @.counts + Message(w)[1]]]
          ELSE /\ q' = q
               /\ p' = [p EXCEPT ![i] = w]
               /\ sent' = sent
    /\ UNCHANGED <<inputs, apertures, tileJobs, search, co, timeUp, pc, result, interrupted, timedOut>>

\* a synchronisation period has passed since the last check of worker i
RsSyncPeriodElapses(i) ==
    /\ AutoSearchType = "random"
    /\ p[i].at = "running"
    /\ ~p[i].syncDue
    /\ p' = [p EXCEPT ![i].syncDue = TRUE]
    /\ UNCHANGED <<inputs, apertures, tileJobs, sent, search, q, co, timeUp, pc, result, interrupted, timedOut>>

\* searchTimeout seconds have passed since the workers were constructed
RsTimeoutElapses ==
    /\ AutoSearchType = "random"
    /\ pc \in {"sleep", "drain"}
    /\ searchTimeout > 0
    /\ ~timeUp
    /\ timeUp' = TRUE
    /\ UNCHANGED <<inputs, apertures, tileJobs, sent, search, p, q, co, pc, result, interrupted, timedOut>>

-----------------------------------------------------------------------------
(* tile_search_random (gerbmerge.py) *)

NewCoordinator == [bestScore |-> Infinity, bestTiling |-> None, placementsTried |-> 0]

\* for i in p: i.start()
CoStart ==
    /\ AutoSearchType = "random"
    /\ pc = "start"
    /\ p' = [i \in Workers |-> [p[i] EXCEPT !.at = "running"]]
    /\ pc' = "sleep"
    /\ UNCHANGED <<inputs, apertures, tileJobs, sent, search, q, co, timeUp, result, interrupted, timedOut>>

\* time.sleep(3) is over: start to drain the queue
CoWake ==
    /\ AutoSearchType = "random"
    /\ pc = "sleep"
    /\ pc' = "drain"
    /\ UNCHANGED <<inputs, apertures, tileJobs, sent, search, p, q, co, timeUp, result, interrupted, timedOut>>

\* the comparison of a reported tiling with the global best
IsBetterResult(newResult, c) ==
    newResult[2] # None /\ area(newResult[2]) < c.bestScore

\* a body that counts the trials of a message only when it takes its tiling
ConsumeCountsImprovements(c, newResult) ==
    IF IsBetterResult(newResult, c)
    THEN [c EXCEPT !.placementsTried = @ + newResult[1],
                   !.bestTiling = newResult[2], !.bestScore = area(newResult[2])]
    ELSE c

\* the body of "while newResult is not None"
Consume(c, newResult) ==
    LET c1 == [c EXCEPT !.placementsTried = @ + newResult[1]]
    IN  IF IsBetterResult(newResult, c)
        THEN [c1 EXCEPT !.bestTiling = newResult[2], !.bestScore = area(newResult[2])]
        ELSE c1

\* q.get(block=False) delivers a message
CoGet ==
    /\ AutoSearchType = "random"
    /\ pc = "drain"
    /\ q # <<>>
    /\ co' = Consume(co, Head(q))
    /\ q' = Tail(q)
    /\ UNCHANGED <<inputs, apertures, tileJobs, sent, search, p, timeUp, pc, result, interrupted, timedOut>>

\* q.get(block=False) raises queue.Empty
CoEmpty ==
    /\ AutoSearchType = "random"
    /\ pc = "drain"
    /\ q = <<>>
    /\ pc' = "sleep"
    /\ UNCHANGED <<inputs, apertures, tileJobs, sent, search, p, q, co, timeUp, result, interrupted, timedOut>>

\* a handler that leaves the worker running
NotTerminated(w) == w

\* what the handler of KeyboardInterrupt does to a worker: i.terminate()
Terminated(w) == IF w.at = "running" THEN [w EXCEPT !.at = "terminated"] ELSE w

\* the value tile_search_random returns
CoResult(c) == c.bestTiling

\* KeyboardInterrupt inside the try block
CoInterrupt ==
    /\ AutoSearchType = "random"
    /\ pc \in {"sleep", "drain"}
    /\ interrupted' = TRUE
    /\ p' = [i \in Workers |-> Terminated(p[i])]
    /\ result' = CoResult(co)
    /\ pc' = "returned"
    /\ UNCHANGED <<inputs, apertures, tileJobs, sent, search, q, co, timeUp, timedOut>>

-----------------------------------------------------------------------------
(* Aperture (aptable.py) and the thickening loop of merge (gerbmerge.py)   *)

\* a dimension that is None: an integer that is no dimension
NoDim == -1

\* Python's False, returned in place of an aperture
False == [false |-> TRUE]

\* Aperture.__init__; Circle and Octagon have no dimy
Aperture(apname, code, dimx, dimy) ==
    [apname |-> apname, code |-> code, dimx |-> dimx, dimy |-> dimy]

\* Aperture.getAdjusted: both tests compare self.dimx with the minimum
getAdjusted(a, min) ==
    LET dimx == IF a.dimx # NoDim /\ a.dimx < min THEN min ELSE NoDim
        dimy == IF a.dimy # NoDim /\ a.dimx < min THEN min ELSE NoDim
    IN  IF dimx # NoDim \/ dimy # NoDim
        THEN Aperture(a.apname, a.code,
                      IF dimx = NoDim THEN a.dimx ELSE dimx,
                      IF dimy = NoDim THEN a.dimy ELSE dimy)
        ELSE False

MaxDim == 4

\* the non-macro apertures of the model
ApertureInputs ==
    {Aperture(apname, "D10", dimx, dimy) :
        apname \in {"Rectangle", "Oval"}, dimx \in 1..MaxDim, dimy \in 1..MaxDim}
    \cup {Aperture(apname, "D10", dimx, NoDim) :
        apname \in {"Circle", "Octagon"}, dimx \in 1..MaxDim}

\* new = config.GAT[ap].getAdjusted(config.MinimumFeatureDimension[layername])
ApGetAdjusted ==
    /\ apc = "call"
    /\ new' = getAdjusted(aperture, minimum)
    /\ apc' = "adjusted"
    /\ UNCHANGED <<inputs, aperture, minimum, tileJobs, random, search, pc, result,
                   interrupted, timedOut>>

\* "if not new: continue": the aperture stays in use
ApKeep ==
    /\ apc = "adjusted"
    /\ new = False
    /\ apc' = "kept"
    /\ UNCHANGED <<inputs, aperture, minimum, new, tileJobs, random, search, pc, result,
                   interrupted, timedOut>>

\* the new aperture replaces the old one in the layer
ApReplace ==
    /\ apc = "adjusted"
    /\ new # False
    /\ apc' = "replaced"
    /\ UNCHANGED <<inputs, aperture, minimum, new, tileJobs, random, search, pc, result,
                   interrupted, timedOut>>

-----------------------------------------------------------------------------
(* tile_jobs (gerbmerge.py) *)

\* "not tile": the search returned no tiling
NoTile(tile) == tile = None

\* the search wrapper has returned: raise RuntimeError or return the tiling
TileJobs ==
    /\ pc = "returned"
    /\ tileJobs = "searching"
    /\ tileJobs' = IF NoTile(result) THEN "raised" ELSE "returned"
    /\ UNCHANGED <<inputs, apertures, random, search, pc, result, interrupted, timedOut>>

-----------------------------------------------------------------------------
(* Specification *)

Init ==
    /\ AutoSearchType \in {"exhaustive", "random"}
    /\ \E in \in InputsOf(AutoSearchType) :
          /\ jobs = in.jobs
          /\ x = in.x
          /\ y = in.y
          /\ xspacing = in.xspacing
          /\ yspacing = in.yspacing
          /\ RandomSearchExhaustiveJobs = in.tail
          /\ searchTimeout = in.timeout
    /\ outcomes = IF AutoSearchType = "random" THEN TrialOutcomes(NewRandomSearch) ELSE {}
    /\ optimum = IF AutoSearchType = "random" THEN ExhaustiveOptimum ELSE None
    /\ timeUp = FALSE
    /\ search = NewExhaustiveSearch(jobs, searchTimeout, None)
    /\ p = [i \in Workers |-> NewRandomSearch]
    /\ q = <<>>
    /\ co = NewCoordinator
    /\ pc = "start"
    /\ result = None
    /\ interrupted = FALSE
    /\ timedOut = FALSE
    /\ tileJobs = "searching"
    /\ sent = [i \in Workers |-> [placements |-> 0, bestTiling |-> None, counts |-> 0]]
    /\ aperture = None
    /\ minimum = 0
    /\ new = None
    /\ apc = "idle"

Next ==
    \/ ExRun
    \/ ExStep
    \/ ExReturn
    \/ ExInterrupt
    \/ ExSyncPeriodElapses
    \/ ExTimeoutElapses
    \/ \E i \in Workers : RsIteration(i)
    \/ \E i \in Workers : RsSyncPeriodElapses(i)
    \/ RsTimeoutElapses
    \/ CoStart
    \/ CoWake
    \/ CoGet
    \/ CoEmpty
    \/ CoInterrupt
    \/ TileJobs

Spec == Init /\ [][Next]_vars

\* tile_search_random alone
RandomInit == Init /\ AutoSearchType = "random"

RandomNext ==
    \/ \E i \in Workers : RsIteration(i)
    \/ \E i \in Workers : RsSyncPeriodElapses(i)
    \/ RsTimeoutElapses
    \/ CoStart
    \/ CoWake
    \/ CoGet
    \/ CoEmpty
    \/ CoInterrupt
    \/ TileJobs

\* the scheduler runs the coordinator and every worker and time passes; an
\* interrupt may never come
FairRandomSpec ==
    /\ RandomInit
    /\ [][RandomNext]_vars
    /\ \A i \in Workers : WF_vars(RsIteration(i)) /\ WF_vars(RsSyncPeriodElapses(i))
    /\ WF_vars(RsTimeoutElapses)
    /\ WF_vars(CoStart) /\ WF_vars(CoWake) /\ WF_vars(CoGet) /\ WF_vars(CoEmpty)
    /\ WF_vars(TileJobs)

-----------------------------------------------------------------------------
(* Properties *)

\* a is at least as good as b under (area, then corners)
LexLeq(a, b) == a[1] < b[1] \/ (a[1] = b[1] /\ a[2] <= b[2])

\* tiling T is strictly better than the tiling best (or there is no best)
LexBetter(T, best) ==
    \/ best = None
    \/ area(T) < area(best)
    \/ (area(T) = area(best) /\ corners(T) < corners(best))

ScoreOf(T) == <<area(T), corners(T)>>

\* the two orientations of a job with their spacing-inflated dimensions
Variants(J) ==
    {[w |-> J.Xdim + xspacing, h |-> J.Ydim + yspacing, rot |-> FALSE],
     [w |-> J.Ydim + xspacing, h |-> J.Xdim + yspacing, rot |-> TRUE]}

\* the scores of all complete placements of Jobs on T: any order, any
\* orientation, any anchor at which the rectangle fits
RECURSIVE PlacementScores(_, _)
PlacementScores(T, Jobs) ==
    IF Jobs = <<>> THEN {ScoreOf(T)}
    ELSE UNION {UNION {UNION {
            PlacementScores(addJob(T, pt, v.w, v.h, Jobs[i].job, v.rot), RemoveAt(Jobs, i))
                : pt \in {c \in Candidates(T) : Fits(T, c, v.w, v.h)}}
                : v \in Variants(Jobs[i])}
                : i \in 1..Len(Jobs)}

\* the exhaustive search ran to completion
Completed ==
    AutoSearchType = "exhaustive" /\ pc = "returned" /\ ~interrupted /\ ~timedOut

\* every tiling held by the searches, the queue and the wrappers
Recorded ==
    ({search.bestTiling, result, co.bestTiling}
     \cup {p[i].bestTiling : i \in Workers}
     \cup {IF p[i].finalSearch = None THEN None ELSE p[i].finalSearch.bestTiling
              : i \in Workers}
     \cup {q[k][2] : k \in 1..Len(q)}
     \cup {search.stack[k].tiles : k \in 1..Len(search.stack)})
    \ {None}

\* the tiling made of the first n rectangles of T
Prefix(T, n) == [rects |-> SubSeq(T.rects, 1, n), closed |-> {}]

\* C1: a search that ran to completion without timeout has counted
\* possiblePermutations = (2^N) * N! permutations
PermutationConservation ==
    Completed => search.permutations = search.possiblePermutations

\* C2: after a completed search bestTiling has the least area of all complete
\* placements and, among those of that area, the least number of corners
BestIsLexMin ==
    Completed =>
        LET S == PlacementScores(EmptyTiling, jobs) IN
        S # {} => /\ search.bestTiling # None
                  /\ ScoreOf(search.bestTiling) \in S
                  /\ \A sc \in S : LexLeq(ScoreOf(search.bestTiling), sc)

\* a completed search chose among placements of equal area and different
\* corners, and among placements of different area
BestIsLexMinWitness ==
    /\ Completed
    /\ search.bestTiling # None
    /\ LET S == PlacementScores(EmptyTiling, jobs)
           b == ScoreOf(search.bestTiling)
       IN  /\ \E sc \in S : sc[1] = b[1] /\ sc[2] > b[2]
           /\ \E sc \in S : sc[1] > b[1]

\* C3: in every recorded tiling each rectangle sits at an anchor that is valid
\* for its inflated size on the rectangles placed before it, and no two
\* rectangles intersect
NoOverlap ==
    \A T \in Recorded :
        /\ \A n \in 1..Len(T.rects) :
              LET r == T.rects[n] IN
              /\ <<r.x, r.y>> \in Candidates(Prefix(T, n - 1))
              /\ Fits(Prefix(T, n - 1), <<r.x, r.y>>, r.w, r.h)
        /\ \A m, n \in 1..Len(T.rects) :
              m # n => ~Overlap(T.rects[m].x, T.rects[m].y, T.rects[m].w, T.rects[m].h,
                                T.rects[n])

\* a returned tiling that holds two rectangles, one of them a rotated job
NoOverlapWitness ==
    /\ pc = "returned"
    /\ result # None
    /\ Len(result.rects) >= 2
    /\ \E n \in 1..Len(result.rects) : result.rects[n].rot /\ result.rects[n].w # result.rects[n].h

\* C4: in every recorded tiling each rectangle lies within the panel
WithinPanel ==
    \A T \in Recorded :
        \A n \in 1..Len(T.rects) :
            LET r == T.rects[n] IN
            /\ 0 <= r.x /\ r.x + r.w <= x
            /\ 0 <= r.y /\ r.y + r.h <= y

\* a returned tiling with a rotated job on a panel that the job fits only rotated
WithinPanelWitness ==
    /\ pc = "returned"
    /\ result # None
    /\ \E n \in 1..Len(result.rects) :
          LET r == result.rects[n] IN r.rot /\ r.h > x /\ r.h <= y

\* C5: with a timeout, tile_search_random returns once the budget has elapsed
\* unless it is interrupted
TimeoutEndsRandomSearch ==
    (AutoSearchType = "random" /\ searchTimeout > 0 /\ timeUp)
        ~> (interrupted \/ pc = "returned")

\* C6: once the exhaustive search has observed the timeout it places no
\* further job and evaluates no further leaf
NoWorkAfterTimeout ==
    [][(AutoSearchType = "exhaustive" /\ timedOut /\ pc = "running")
          => /\ Len(search'.stack) <= Len(search.stack)
             /\ search'.bestTiling = search.bestTiling
             /\ search'.permutations = search.permutations]_vars

NoPlacementLost ==
    (AutoSearchType = "random" /\ interrupted /\ \E i \in Workers : p[i].bestTiling # None)
        => result # None

\* C9: the coordinator takes over every reported tiling that is strictly
\* better under (area, then corners)
CoordinatorTakesBetter ==
    [][(AutoSearchType = "random" /\ pc = "drain" /\ q # <<>> /\ q' = Tail(q)
        /\ Head(q)[2] # None /\ LexBetter(Head(q)[2], co.bestTiling))
          => co'.bestTiling = Head(q)[2]]_vars

\* C10: a trial's tail search replaces the running best exactly when it is
\* strictly better under (area, then corners)
WorkerTakesBetter ==
    [][\A i \in Workers :
          p'[i].placements = p[i].placements + 1 =>
              LET fs == p'[i].finalSearch IN
              IF fs # None /\ fs.bestTiling # None /\ LexBetter(fs.bestTiling, p[i].bestTiling)
              THEN p'[i].bestTiling = fs.bestTiling
              ELSE p'[i].bestTiling = p[i].bestTiling]_vars

\* some placement of all of Jobs on T fits the panel: any order, any
\* orientation, any anchor at which the rectangle fits
RECURSIVE CanPlace(_, _)
CanPlace(T, Jobs) ==
    \/ Jobs = <<>>
    \/ \E i \in 1..Len(Jobs) : \E v \in Variants(Jobs[i]) :
          \E pt \in {c \in Candidates(T) : Fits(T, c, v.w, v.h)} :
             \E next \in {addJob(T, pt, v.w, v.h, Jobs[i].job, v.rot)} :
                CanPlace(next, RemoveAt(Jobs, i))

\* no placement of all jobs fits the panel
Unsatisfiable == ~CanPlace(EmptyTiling, jobs)

\* C11: when no placement of all jobs fits the panel, no search records a
\* tiling, no worker emits one and no wrapper holds or returns one
NothingRecordedWhenUnsatisfiable ==
    Unsatisfiable =>
        /\ search.bestTiling = None
        /\ \A i \in Workers :
              /\ p[i].bestTiling = None
              /\ p[i].finalSearch # None => p[i].finalSearch.bestTiling = None
        /\ \A k \in 1..Len(q) : q[k][2] = None
        /\ co.bestTiling = None
        /\ result = None

\* on an unsatisfiable job list a worker has run a tail search and the
\* coordinator has consumed its message
NothingRecordedWhenUnsatisfiableWitness ==
    /\ Unsatisfiable
    /\ \E i \in Workers : p[i].placements > 0 /\ p[i].finalSearch # None
    /\ co.placementsTried > 0

\* tile_jobs raises exactly when the wrapper returned no tiling
RaisesExactlyWithoutTile ==
    tileJobs # "searching" => (tileJobs = "raised" <=> result = None)

\* in exhaustive mode tile_jobs raises only after the search has ended, or
\* was cancelled, without a solution
ExhaustiveRaisesWithoutSolution ==
    (tileJobs = "raised" /\ AutoSearchType = "exhaustive") =>
        /\ search.bestTiling = None
        /\ search.stack = <<>> \/ interrupted

\* C12: tile_jobs raises RuntimeError exactly when the search returned no
\* tiling; in exhaustive mode only after the search ended or was cancelled
\* without a solution, in random mode only when no search has recorded a
\* best tiling
TileJobsRaisesOnlyWithoutTiling ==
    /\ RaisesExactlyWithoutTile
    /\ ExhaustiveRaisesWithoutSolution
    /\ (tileJobs = "raised" /\ AutoSearchType = "random") =>
          \A i \in Workers : p[i].bestTiling = None

\* job J does not fit the empty panel unrotated, but it does rotated
FitsOnlyRotated(J) ==
    /\ J.Xdim + xspacing > x \/ J.Ydim + yspacing > y
    /\ J.Ydim + xspacing <= x /\ J.Xdim + yspacing <= y

\* C13: when a job has no anchor in its normal orientation and the jobs can be
\* placed, the completed exhaustive search ends with a tiling in which that
\* job is placed rotated, with swapped dimensions
ForcedRotation ==
    Completed =>
        \A i \in 1..Len(jobs) :
            (FitsOnlyRotated(jobs[i]) /\ (Len(jobs) = 1 \/ ~Unsatisfiable)) =>
                /\ search.bestTiling # None
                /\ \E n \in 1..Len(search.bestTiling.rects) :
                      search.bestTiling.rects[n].job = jobs[i].job
                /\ \A n \in 1..Len(search.bestTiling.rects) :
                      LET r == search.bestTiling.rects[n] IN
                      r.job = jobs[i].job =>
                          /\ r.rot
                          /\ r.w = jobs[i].Ydim + xspacing
                          /\ r.h = jobs[i].Xdim + yspacing

\* a completed search of the single job 3x1 on the panel 2x3
ForcedRotationWitness ==
    /\ Completed
    /\ Len(jobs) = 1
    /\ FitsOnlyRotated(jobs[1])
    /\ result # None
    /\ result.rects[1].rot

\* every tiling the random search holds: in a worker, in a message, in the
\* coordinator, returned
RandomRecorded ==
    ({result, co.bestTiling}
     \cup {p[i].bestTiling : i \in Workers}
     \cup {IF p[i].finalSearch = None THEN None ELSE p[i].finalSearch.bestTiling
              : i \in Workers}
     \cup {q[k][2] : k \in 1..Len(q)})
    \ {None}

\* tiling T is not better under (area, then corners) than the optimum of the
\* completed exhaustive search
NotBelowOptimum(T) ==
    /\ optimum.bestTiling # None
    /\ \/ optimum.bestScore < area(T)
       \/ /\ optimum.bestScore = area(T)
          /\ corners(optimum.bestTiling) <= corners(T)

Puts(i, m) ==
    /\ p'[i].placements = p[i].placements + 1
    /\ Len(q') = Len(q) + 1
    /\ m = q'[Len(q')]

WorkerBestOnlyImproves ==
    [][\A i \in Workers :
          /\ p'[i].bestScore <= p[i].bestScore
          /\ (p[i].bestTiling # None /\ p'[i].bestTiling # p[i].bestTiling) =>
                /\ p'[i].bestTiling # None
                /\ ~LexBetter(p[i].bestTiling, p'[i].bestTiling)]_vars

\* a worker holds a best tiling and its latest trial ended with a tiling that
\* is worse and was not taken
WorkerBestOnlyImprovesWitness ==
    \E i \in Workers :
        /\ p[i].placements = 2
        /\ p[i].bestTiling # None
        /\ p[i].finalSearch # None
        /\ p[i].finalSearch.bestTiling # None
        /\ LexBetter(p[i].bestTiling, p[i].finalSearch.bestTiling)

\* rectangle r is job J in one of its two orientations
IsVariantOf(r, J) ==
    /\ r.job = J.job
    /\ IF r.rot THEN r.w = J.Ydim + xspacing /\ r.h = J.Xdim + yspacing
                ELSE r.w = J.Xdim + xspacing /\ r.h = J.Ydim + yspacing

\* tiling T holds every entry of the job list exactly once
HoldsEveryJobOnce(T) ==
    /\ Len(T.rects) = Len(jobs)
    /\ \A n \in 1..Len(T.rects) : \E i \in 1..Len(jobs) : IsVariantOf(T.rects[n], jobs[i])
    /\ \A i \in 1..Len(jobs) :
          Cardinality({n \in 1..Len(T.rects) : T.rects[n].job = jobs[i].job})
              = Cardinality({k \in 1..Len(jobs) : jobs[k].job = jobs[i].job})

\* C17: every tiling recorded as best holds every job of the list exactly
\* once, in one of its two orientations; a trial that is left without tail
\* search records no tiling and is counted as one trial
EveryJobOnce ==
    /\ [](\A T \in RandomRecorded \cup ({search.bestTiling} \ {None}) : HoldsEveryJobOnce(T))
    /\ [][\A i \in Workers :
              (RsIteration(i) /\ p'[i].finalSearch = None) =>
                  /\ p'[i].bestTiling = p[i].bestTiling
                  /\ p'[i].placements = p[i].placements + 1
                  /\ \A k \in (Len(q) + 1)..Len(q') :
                        q'[k][2] \in {None, p[i].bestTiling}]_vars

\* a worker that holds a tiling of all jobs has left its second trial because
\* a job had no add-point
EveryJobOnceWitness ==
    /\ RandomCount(Len(jobs)) > 0
    /\ \E i \in Workers :
          /\ p[i].placements = 2
          /\ p[i].finalSearch = None
          /\ p[i].bestTiling # None
          /\ Len(p[i].bestTiling.rects) = 2

\* a job has a side that is not positive, or fits the panel in neither
\* orientation
Malformed ==
    \E i \in 1..Len(jobs) :
        \/ jobs[i].Xdim <= 0 \/ jobs[i].Ydim <= 0
        \/ /\ jobs[i].Xdim > x \/ jobs[i].Ydim > y
           /\ jobs[i].Ydim > x \/ jobs[i].Xdim > y

\* C18: on malformed input no search looks for an add-point or counts a
\* permutation, no worker runs a trial, and the failure does not come out of
\* the search as a missing tiling
MalformedRejectedBeforeSearch ==
    Malformed =>
        /\ \A k \in 1..Len(search.stack) : search.stack[k].at = "enter"
        /\ search.permutations = 0
        /\ \A i \in Workers : p[i].placements = 0
        /\ tileJobs # "raised"

\* C19: the run of a worker leaves bestTiling, bestScore, baseTiling and the
\* job list as they were when run was called
RunModifiesOnlyPlacements ==
    [][/\ jobs' = jobs
       /\ \A i \in Workers :
             /\ p'[i].bestTiling = p[i].bestTiling
             /\ p'[i].bestScore = p[i].bestScore
             /\ p'[i].baseTiling = p[i].baseTiling]_vars

\* C20: a trial places M = max(N - tail, 0) jobs at random; when all of them
\* were placed, the tiling and the remaining min(N, tail) jobs go to a tail
\* search whose result is compared with the running best, so that a trial
\* that has placed all jobs leaves the worker with a best tiling
TrialEndsInTailSearch ==
    \A i \in Workers :
        (p[i].placements > 0 /\ p[i].currentTiling # None) =>
            /\ Len(p[i].currentTiling.rects)
                  = Max2(Len(jobs) - RandomSearchExhaustiveJobs, 0)
            /\ p[i].finalSearch # None
            /\ p[i].finalSearch.bestTiling # None =>
                  /\ Len(p[i].finalSearch.bestTiling.rects) - Len(p[i].currentTiling.rects)
                        = Min2(Len(jobs), RandomSearchExhaustiveJobs)
                  /\ p[i].bestTiling # None
            /\ Len(p[i].currentTiling.rects) = Len(jobs) => p[i].bestTiling # None

\* every call on the stack of s was made for the first add-point of its
\* caller's loop
FirstPath(s) == \A n \in 1..(Len(s.stack) - 1) : s.stack[n].k = 2

\* the running call of the exhaustive search is a leaf
AtLeaf ==
    /\ AutoSearchType = "exhaustive"
    /\ pc = "running"
    /\ search.stack # <<>>
    /\ Top(search).at = "enter"
    /\ Top(search).Jobs = <<>>

\* C21: the counter never exceeds possiblePermutations, and a leaf adds to it
\* only on the path on which every placement used the first add-point, and
\* then one
CountedOncePerPermutation ==
    /\ [](search.permutations <= search.possiblePermutations)
    /\ [][(AtLeaf /\ Len(search'.stack) < Len(search.stack)) =>
              search'.permutations = search.permutations
                                       + (IF FirstPath(search) THEN 1 ELSE 0)]_vars

\* a leaf reached through a second add-point, after permutations were counted
CountedOncePerPermutationWitness ==
    /\ AtLeaf
    /\ ~FirstPath(search)
    /\ search.permutations > 0

\* the running call of the exhaustive search is about to try a variant of a
\* job: "unrot" the unrotated one, "rot" the rotated one
AtVariant(at) ==
    /\ AutoSearchType = "exhaustive"
    /\ pc = "running"
    /\ search.stack # <<>>
    /\ Top(search).at = at

\* the variant that the running call is about to try has no valid anchor
NoAnchor ==
    LET f == Top(search)
        J == f.Jobs[f.job_ix]
    IN  IF f.at = "unrot"
        THEN validAddPoints(f.tiles, J.Xdim + xspacing, J.Ydim + yspacing) = <<>>
        ELSE validAddPoints(f.tiles, J.Ydim + xspacing, J.Xdim + yspacing) = <<>>

\* C22: for a job variant without valid anchor the search does not recurse; on
\* the first-branch path the counter grows by 2^(number of the other jobs of
\* the call), on any other path it is left unchanged
PruneAddsPowerOfTwo ==
    [][((AtVariant("unrot") \/ AtVariant("rot")) /\ NoAnchor /\ search'.stack # search.stack) =>
          /\ Len(search'.stack) = Len(search.stack)
          /\ search'.permutations =
                search.permutations
                  + (IF FirstPath(search) THEN 2 ^ (Len(Top(search).Jobs) - 1) ELSE 0)]_vars

\* the outermost call has pruned the unrotated variant of the first of three
\* jobs: two jobs remain, four permutations are counted
PruneAddsPowerOfTwoWitness ==
    /\ AtVariant("rot")
    /\ Top(search).addpoints1 = <<>>
    /\ Len(Top(search).Jobs) = 3
    /\ Top(search).job_ix = 1
    /\ search.permutations = 4

\* the scores of the leaves of the tree that _run walks when the rotated
\* variant of every job, square or not, is explored
RECURSIVE SearchScores(_, _)
SearchScores(T, Jobs) ==
    IF Jobs = <<>> THEN {ScoreOf(T)}
    ELSE UNION {UNION {UNION {UNION {
            SearchScores(addJob(t, pt, v.w, v.h, Jobs[i].job, v.rot), RemoveAt(Jobs, i))
                : pt \in {c \in Candidates(t) \ t.closed : Fits(t, c, v.w, v.h)}}
                : v \in Variants(Jobs[i])}
                : i \in 1..Len(Jobs)}
                : t \in {removeInlets(T, minDimension(Jobs))}}

\* C23: a completed search ends with the best (area, corners) of the search
\* that also explores the rotated variant of every square job, whatever the
\* spacings; it finds nothing exactly when that search finds nothing
SquareRotationRedundant ==
    Completed =>
        LET S == SearchScores(EmptyTiling, jobs) IN
        IF S = {}
        THEN search.bestTiling = None
        ELSE /\ search.bestTiling # None
             /\ ScoreOf(search.bestTiling) \in S
             /\ \A sc \in S : LexLeq(ScoreOf(search.bestTiling), sc)

\* a completed search has placed a square job with different x and y spacing
SquareRotationRedundantWitness ==
    /\ Completed
    /\ search.bestTiling # None
    /\ xspacing # yspacing
    /\ \E n \in 1..Len(jobs) : jobs[n].Xdim = jobs[n].Ydim
    /\ \E n \in 1..Len(jobs) : jobs[n].Xdim # jobs[n].Ydim

\* the random placements of a trial when the inlets are pruned, before each
\* job, with the minimum dimension of the jobs that are not placed yet
RECURSIVE OutstandingPlacements(_, _)
OutstandingPlacements(currentTiling, order) ==
    IF order = <<>> THEN {currentTiling}
    ELSE UNION {UNION {UNION {
            OutstandingPlacements(addJob(T, pt, v.w, v.h, jobs[Head(order)].job, v.rot),
                                  Tail(order))
                : pt \in {c \in Candidates(T) \ T.closed : Fits(T, c, v.w, v.h)}}
                : v \in Variants(jobs[Head(order)])}
                : T \in {removeInlets(currentTiling,
                                      minDimension([n \in 1..Len(order) |-> jobs[order[n]]]))}}

\* C24: the tiling that a trial hands on after its random placements has the
\* inlets pruned with the minimum dimension of the jobs outstanding before
\* each placement
InletThresholdOverOutstanding ==
    \A i \in Workers :
        (AutoSearchType = "random" /\ p[i].currentTiling # None) =>
            \E joborder \in Orders(1..Len(jobs)) :
                \E T \in OutstandingPlacements(EmptyTiling,
                             SubSeq(joborder, 1, RandomCount(Len(jobs)))) :
                    /\ T.rects = p[i].currentTiling.rects
                    /\ T.closed = p[i].currentTiling.closed

\* the placed rectangles of the tiling of the n-th call on the stack
RectsAt(s, n) == s.stack[n].tiles.rects

\* C25: a step of the search leaves the placed rectangles of the tiling of
\* every call that stays on the stack as they were, a new call gets the
\* rectangles of its caller and one more, and the baseTiling of a RandomSearch
\* never holds a placed job
PlacementsOnFreshClones ==
    /\ [](\A i \in Workers : p[i].baseTiling.rects = <<>>)
    /\ [][search'.stack # search.stack =>
            /\ \A n \in 1..Min2(Len(search.stack), Len(search'.stack)) :
                  RectsAt(search', n) = RectsAt(search, n)
            /\ Len(search'.stack) > Len(search.stack) =>
                  /\ Len(search'.stack) = Len(search.stack) + 1
                  /\ IF search.stack = <<>>
                     THEN Top(search').tiles.rects = search.baseTiling.rects
                     ELSE /\ Len(Top(search').tiles.rects) = Len(Top(search).tiles.rects) + 1
                          /\ SubSeq(Top(search').tiles.rects, 1, Len(Top(search).tiles.rects))
                                = Top(search).tiles.rects]_vars

\* a call has returned to its caller, which is about to try the next
\* add-point of the same job on its own tiling
PlacementsOnFreshClonesWitness ==
    /\ AtVariant("unrot")
    /\ Len(search.stack) >= 2
    /\ Top(search).k = 2
    /\ Len(Top(search).addpoints1) >= 2
    /\ search.bestTiling # None

\* C26: a worker returns only in the step that ends a trial and puts a report,
\* with the timeout elapsed; when it has returned, the counts it has put sum
\* to its number of trials and its best tiling is the one of its last report
ReturnsOnlyAfterReport ==
    /\ [](\A i \in Workers :
            p[i].at = "returned" =>
                /\ sent[i].counts = p[i].placements
                /\ sent[i].bestTiling = p[i].bestTiling
                /\ p[i].placementsSinceLastCheck = 0)
    /\ [][\A i \in Workers :
            (p[i].at # "returned" /\ p'[i].at = "returned") =>
                /\ searchTimeout > 0 /\ timeUp
                /\ p[i].at = "running"
                /\ p'[i].placements = p[i].placements + 1
                /\ Len(q') = Len(q) + 1
                /\ q'[Len(q')][1] = p'[i].placements - sent[i].placements]_vars

\* a worker has returned after two trials and two reports, the first of which
\* carried its best tiling
ReturnsOnlyAfterReportWitness ==
    \E i \in Workers :
        /\ p[i].at = "returned"
        /\ p[i].placements = 2
        /\ p[i].bestTiling # None
        /\ sent[i].counts = 2

\* the sum of the counts of the messages of the sequence msgs
RECURSIVE SumCounts(_)
SumCounts(msgs) == IF msgs = <<>> THEN 0 ELSE Head(msgs)[1] + SumCounts(Tail(msgs))

\* the sum of the counts that the workers of S have put on the queue
RECURSIVE SumSent(_)
SumSent(S) ==
    IF S = {} THEN 0
    ELSE LET i == CHOOSE j \in S : TRUE IN sent[i].counts + SumSent(S \ {i})

\* C27: placementsTried is the sum of the counts of the messages taken from
\* the queue (all counts put, less those still queued) and never exceeds the
\* trials run by the workers; taking a message adds its count, and a message
\* without tiling leaves bestTiling and bestScore as they were
PlacementsTriedIsSumOfCounts ==
    /\ [](/\ co.placementsTried + SumCounts(q) = SumSent(Workers)
          /\ co.placementsTried <= SumPlacements(Workers))
    /\ [][(q # <<>> /\ q' = Tail(q)) =>
            /\ co'.placementsTried = co.placementsTried + Head(q)[1]
            /\ Head(q)[2] = None =>
                  /\ co'.bestTiling = co.bestTiling
                  /\ co'.bestScore = co.bestScore]_vars

\* the coordinator holds a best tiling from a message it has taken and the
\* next message on the queue carries a count and no tiling
PlacementsTriedIsSumOfCountsWitness ==
    /\ pc = "drain"
    /\ co.placementsTried >= 1
    /\ co.bestTiling # None
    /\ q # <<>>
    /\ Head(q)[1] >= 1
    /\ Head(q)[2] = None

\* C28: the tiling recorded by a search that started from the tiling of a
\* trial begins with the placements of that tiling, unchanged and in place,
\* holds the jobs it was given once each after them, and its bestScore is the
\* area of the whole tiling
TailSearchExtendsStart ==
    \A i \in Workers :
        (AutoSearchType = "random" /\ p[i].finalSearch # None
            /\ p[i].finalSearch.bestTiling # None) =>
            LET T == p[i].finalSearch.bestTiling
                start == p[i].currentTiling
            IN  /\ Len(start.rects) = RandomCount(Len(jobs))
                /\ Len(T.rects) - Len(start.rects) = Len(jobs) - RandomCount(Len(jobs))
                /\ SubSeq(T.rects, 1, Len(start.rects)) = start.rects
                /\ HoldsEveryJobOnce(T)
                /\ p[i].finalSearch.bestScore = area(T)

\* a tail search has completed a tiling that held a job when it started, and
\* the job it added enlarged the area
TailSearchExtendsStartWitness ==
    \E i \in Workers :
        /\ p[i].finalSearch # None
        /\ p[i].finalSearch.bestTiling # None
        /\ p[i].currentTiling.rects # <<>>
        /\ p[i].finalSearch.bestScore > area(p[i].currentTiling)

\* the best score and the best tiling of the holder r agree
ScoreAgrees(r) ==
    /\ r.bestScore = Infinity <=> r.bestTiling = None
    /\ r.bestTiling # None => r.bestScore = area(r.bestTiling)

\* C29: in the exhaustive search, in every worker and its tail search, and in
\* the coordinator, bestScore is infinite exactly when bestTiling is None and
\* is the area of bestTiling otherwise
BestScoreIsAreaOfBest ==
    /\ ScoreAgrees(search)
    /\ ScoreAgrees(co)
    /\ \A i \in Workers :
          /\ ScoreAgrees(p[i])
          /\ p[i].finalSearch # None => ScoreAgrees(p[i].finalSearch)

\* the coordinator and a worker hold a best tiling while the other worker
\* holds none; the worker's latest trial was worse and left its best alone
BestScoreIsAreaOfBestWitness ==
    /\ co.bestTiling # None
    /\ \E i, j \in Workers :
          /\ p[i].bestTiling # None
          /\ p[i].finalSearch # None
          /\ p[i].finalSearch.bestScore > p[i].bestScore
          /\ p[j].bestTiling = None
          /\ p[j].bestScore = Infinity

\* the thickening of one aperture of a layer; no search is running
ApertureInit ==
    /\ aperture \in ApertureInputs
    /\ minimum \in 1..MaxDim
    /\ new = None
    /\ apc = "call"
    /\ AutoSearchType = "exhaustive"
    /\ jobs = <<Job(2, 1, 1)>>
    /\ x = 2 /\ y = 2
    /\ xspacing = 0 /\ yspacing = 0
    /\ RandomSearchExhaustiveJobs = 2
    /\ searchTimeout = 0
    /\ outcomes = {}
    /\ optimum = None
    /\ timeUp = FALSE
    /\ search = NewExhaustiveSearch(jobs, searchTimeout, None)
    /\ p = [i \in Workers |-> NewRandomSearch]
    /\ q = <<>>
    /\ co = NewCoordinator
    /\ pc = "returned"
    /\ result = None
    /\ interrupted = FALSE
    /\ timedOut = FALSE
    /\ tileJobs = "returned"
    /\ sent = [i \in Workers |-> [placements |-> 0, bestTiling |-> None, counts |-> 0]]

ApertureNext ==
    \/ ApGetAdjusted
    \/ ApKeep
    \/ ApReplace

ApertureSpec == ApertureInit /\ [][ApertureNext]_vars

\* dimension d is defined and below the minimum
Below(d) == d # NoDim /\ d < minimum

\* C30: getAdjusted returns False exactly when every defined dimension of a
\* non-macro aperture is at least the minimum; otherwise it returns an
\* aperture of the same type and code whose defined dimensions are at least
\* the minimum, those that already were unchanged
GetAdjustedConforms ==
    apc \in {"adjusted", "kept", "replaced"} =>
        /\ new = False <=> (~Below(aperture.dimx) /\ ~Below(aperture.dimy))
        /\ new # False =>
              /\ new.apname = aperture.apname
              /\ new.code = aperture.code
              /\ new.dimx = IF Below(aperture.dimx) THEN minimum ELSE aperture.dimx
              /\ new.dimy = IF Below(aperture.dimy) THEN minimum ELSE aperture.dimy

====
